---- MODULE Spec2Model ----
\* A model of src/src/main.rs: the HTTP -> FastCGI gateway (request translation,
\* backend exchange, response parsing, the handler) and the supervision of the
\* php-fpm child process.
\*
\* Bytes are their ASCII codes, byte strings are sequences of them, and slice
\* offsets are 0-based as in the source.
EXTENDS Integers, Sequences, FiniteSets, TLC

VARIABLES
    \* --- SpecParse: parse_fpm_response as a function of the raw response
    data,          \* the raw backend response handed to parse_fpm_response
    parsed,        \* its result, NotRun before the call
    \* --- SpecTranslate: the parameter set of dispatch_to_fpm (lines 72-90)
    t_cfg,         \* the FpmConfig
    t_req,         \* the inbound request
    t_out,         \* the translation result, NotRun before the call
    \* --- Spec: main, the interrupt handler and the request tasks
    main_pc,       \* where main is: "new_config", "run_php_fpm", "set_handler",
                   \* "bind", "serve", "exited"
    exit_cause,    \* why the gateway process ended, "" while it runs
    config,        \* the FpmConfig built by FpmConfig::new
    fpm_proc,      \* the pid of the spawned php-fpm, 0 before the spawn
    procs,         \* the process table: pid -> [pgid, parent]
    handler_set,   \* whether ctrlc::set_handler has installed the handler
    kills,         \* the calls of kill_process_group, in order: their results
    signalled,     \* the processes a SIGTERM was delivered to
    task,          \* per request: its position and what it holds
    conns          \* the backend connections opened so far, in order

parseVars == <<data, parsed>>
translateVars == <<t_cfg, t_req, t_out>>
mainVars == <<main_pc, exit_cause, config, fpm_proc, handler_set, kills, signalled>>
gatewayVars == <<main_pc, exit_cause, config, fpm_proc, procs, handler_set, kills,
                 signalled, task, conns>>
vars == <<data, parsed, t_cfg, t_req, t_out, main_pc, exit_cause, config, fpm_proc,
          procs, handler_set, kills, signalled, task, conns>>

------------------------------------------------------------------------------
\* Bytes

CR == 13
LF == 10
COLON == 58
SP == 32
TAB == 9
DEL == 127
PLUS == 43

CRLF == <<CR, LF>>
CRLFCRLF == <<CR, LF, CR, LF>>
COLON_SP == <<COLON, SP>>

is_ascii_digit(c) == c >= 48 /\ c <= 57
is_ascii_uppercase(c) == c >= 65 /\ c <= 90
is_ascii_lowercase(c) == c >= 97 /\ c <= 122
to_ascii_lowercase(c) == IF is_ascii_uppercase(c) THEN c + 32 ELSE c

\* data[from..to] of the source: 0-based, `to` exclusive.
Slice(s, from, to) == SubSeq(s, from + 1, to)

\* data.windows(sep.len()).position(|w| w == sep): the 0-based offset of the
\* first window equal to sep, -1 for None.
RECURSIVE position_from(_, _, _)
position_from(s, sep, i) ==
    IF i + Len(sep) > Len(s) THEN -1
    ELSE IF Slice(s, i, i + Len(sep)) = sep THEN i
    ELSE position_from(s, sep, i + 1)

\* A search that keeps the last matching window instead of the first.
RECURSIVE rposition_from(_, _, _)
rposition_from(s, sep, i) ==
    IF i < 0 THEN -1
    ELSE IF i + Len(sep) <= Len(s) /\ Slice(s, i, i + Len(sep)) = sep THEN i
    ELSE rposition_from(s, sep, i - 1)

position_last(s, sep) == rposition_from(s, sep, Len(s) - Len(sep))

position(s, sep) == position_from(s, sep, 0)

------------------------------------------------------------------------------
\* The http crate's header and status types, as the source uses them

\* Results carry every field whatever the outcome, so that any two compare.
NotRun == [ok |-> FALSE, err |-> "not run"]

\* HeaderName::from_bytes: a non-empty token, stored in lower case.
is_token_byte(c) ==
    \/ is_ascii_digit(c) \/ is_ascii_uppercase(c) \/ is_ascii_lowercase(c)
    \/ c \in {33, 35, 36, 37, 38, 39, 42, 43, 45, 46, 94, 95, 96, 124, 126}

HeaderName_valid(b) == Len(b) > 0 /\ \A i \in 1..Len(b) : is_token_byte(b[i])
HeaderName_from_bytes(b) == [i \in 1..Len(b) |-> to_ascii_lowercase(b[i])]

\* HeaderValue::from_bytes: visible ASCII, space, tab and opaque bytes.
is_value_byte(c) == (c >= SP /\ c # DEL) \/ c = TAB
HeaderValue_valid(b) == \A i \in 1..Len(b) : is_value_byte(b[i])

\* HeaderName::from_static("status")
STATUS == <<115, 116, 97, 116, 117, 115>>

\* StatusCode::OK, StatusCode::INTERNAL_SERVER_ERROR
StatusCode_OK == 200
StatusCode_INTERNAL_SERVER_ERROR == 500

\* StatusCode::from_u16 accepts 100..=999.
StatusCode_MIN == 100
StatusCode_MAX == 999
StatusCode_valid(code) == code >= StatusCode_MIN /\ code <= StatusCode_MAX

\* HeaderMap::new
HeaderMap_new == <<>>

\* An insert that keeps an entry already present.
HeaderMap_insert_first(h, name, value) ==
    [n \in (DOMAIN h) \cup {name} |-> IF n \in DOMAIN h THEN h[n] ELSE value]

\* HeaderMap::insert: the entry of a name already present is replaced.
HeaderMap_insert(h, name, value) ==
    [n \in (DOMAIN h) \cup {name} |-> IF n = name THEN value ELSE h[n]]

------------------------------------------------------------------------------
\* parse_fpm_response and its helpers (lines 119-191)

\* value.as_bytes().iter().copied().take_while(|&c| c.is_ascii_digit())
RECURSIVE take_while_digit(_)
take_while_digit(b) ==
    IF Len(b) = 0 \/ ~is_ascii_digit(b[1]) THEN <<>>
    ELSE <<b[1]>> \o take_while_digit(Tail(b))

\* u16::MAX
U16_MAX == 65535

\* str::parse::<u16> on a string of digits: -1 for Err (empty, or overflow of
\* the checked multiply-and-add).
RECURSIVE parse_u16_from(_, _)
parse_u16_from(b, acc) ==
    IF Len(b) = 0 THEN acc
    ELSE IF acc * 10 + (b[1] - 48) > U16_MAX THEN -1
    ELSE parse_u16_from(Tail(b), acc * 10 + (b[1] - 48))

parse_u16(b) == IF Len(b) = 0 THEN -1 ELSE parse_u16_from(b, 0)

\* A parse of the whole value, not of its leading digits: a value that goes on
\* after the digits is an error.
status_digits_whole(value) ==
    IF \A i \in 1..Len(value) : is_ascii_digit(value[i]) THEN value ELSE <<>>

\* lines 175-183: the digits of a status value that are parsed
status_digits(value) == take_while_digit(value)

\* parse_fpm_header (lines 151-161)
parse_fpm_header(line) ==
    LET ix == position(line, COLON_SP) IN
    IF ix = -1 THEN [ok |-> FALSE, err |-> "invalid header", name |-> <<>>, value |-> <<>>]
    ELSE IF ~HeaderName_valid(Slice(line, 0, ix))
    THEN [ok |-> FALSE, err |-> "InvalidHeaderName", name |-> <<>>, value |-> <<>>]
    ELSE IF ~HeaderValue_valid(Slice(line, ix + Len(COLON_SP), Len(line)))
    THEN [ok |-> FALSE, err |-> "InvalidHeaderValue", name |-> <<>>, value |-> <<>>]
    ELSE [ok |-> TRUE, err |-> "",
          name |-> HeaderName_from_bytes(Slice(line, 0, ix)),
          value |-> Slice(line, ix + Len(COLON_SP), Len(line))]

\* HeaderIter::next (lines 131-148), for non-empty data: the line it yields and
\* the data it keeps.
HeaderIter_next(d) ==
    LET ix == position(d, CRLF) IN
    IF ix # -1
    THEN [line |-> Slice(d, 0, ix), rest |-> Slice(d, ix + Len(CRLF), Len(d))]
    ELSE [line |-> d, rest |-> <<>>]

ParseErr(e) == [ok |-> FALSE, err |-> e, status |-> 0, headers |-> <<>>, body |-> <<>>]
ParseOk(s, h, b) == [ok |-> TRUE, err |-> "", status |-> s, headers |-> h, body |-> b]

\* The loop of parse_fpm_response (lines 172-188) over what is left of the
\* header block.
RECURSIVE parse_headers(_, _, _, _)
parse_headers(d, status, headers, body) ==
    IF Len(d) = 0 THEN ParseOk(status, headers, body)
    ELSE
        LET nx == HeaderIter_next(d)
            item == parse_fpm_header(nx.line)
        IN  IF ~item.ok THEN ParseErr(item.err)
            ELSE IF item.name = STATUS
            THEN LET code == parse_u16(status_digits(item.value)) IN
                 IF code = -1 THEN ParseErr("ParseIntError")
                 ELSE IF ~StatusCode_valid(code) THEN ParseErr("InvalidStatusCode")
                 ELSE parse_headers(nx.rest, code, headers, body)
            ELSE parse_headers(nx.rest, status,
                               HeaderMap_insert(headers, item.name, item.value), body)

\* A boundary search that takes the last blank line of the buffer.
find_boundary_last(d) == position_last(d, CRLFCRLF)

\* lines 164-168: the offset of the header/body boundary, -1 for None
find_boundary(d) == position(d, CRLFCRLF)

\* parse_fpm_response (lines 163-191)
parse_fpm_response(d) ==
    LET ix == find_boundary(d) IN
    IF ix = -1 THEN ParseErr("headers not found")
    ELSE parse_headers(Slice(d, 0, ix), StatusCode_OK, HeaderMap_new,
                       Slice(d, ix + Len(CRLFCRLF), Len(d)))

------------------------------------------------------------------------------
\* The translation of dispatch_to_fpm (lines 72-90)

None == [some |-> FALSE, v |-> <<>>]
Some(x) == [some |-> TRUE, v |-> x]

\* HeaderValue::to_str succeeds on visible ASCII, space and tab only.
is_visible_ascii(c) == (c >= SP /\ c < DEL) \/ c = TAB
to_str_ok(b) == \A i \in 1..Len(b) : is_visible_ascii(b[i])

\* usize::MAX of a 64-bit target, in decimal: 18446744073709551615
USIZE_MAX_DIGITS ==
    <<49,56,52,52,54,55,52,52,48,55,51,55,48,57,53,53,49,54,49,53>>

RECURSIVE strip_zeros(_)
strip_zeros(b) ==
    IF Len(b) > 1 /\ b[1] = 48 THEN strip_zeros(Tail(b)) ELSE b

RECURSIVE digits_greater(_, _)
digits_greater(a, b) ==
    IF Len(a) = 0 THEN FALSE
    ELSE IF a[1] # b[1] THEN a[1] > b[1]
    ELSE digits_greater(Tail(a), Tail(b))

\* str::parse::<usize>: an optional "+", then one or more digits, no overflow.
\* The value is kept as its decimal digits without leading zeros, which is
\* also how Params::content_length stores it (usize::to_string).
parse_usize(b) ==
    LET d == IF Len(b) > 0 /\ b[1] = PLUS THEN Tail(b) ELSE b
        c == strip_zeros(d)
    IN  IF Len(d) = 0 \/ \E i \in 1..Len(d) : ~is_ascii_digit(d[i]) THEN None
        ELSE IF Len(c) > Len(USIZE_MAX_DIGITS)
                \/ (Len(c) = Len(USIZE_MAX_DIGITS) /\ digits_greater(c, USIZE_MAX_DIGITS))
        THEN None
        ELSE Some(c)

TranslateErr(e) == [ok |-> FALSE, err |-> e, params |-> <<>>]

\* Params::default() and the builder calls of lines 72-81
base_params(cfg, req) ==
    [request_method |-> req.method,
     script_filename |-> cfg.script_path,
     script_name |-> "/indx.php",
     request_uri |-> "/",
     remote_addr |-> "127.0.0.1",
     remote_port |-> 12345,
     server_addr |-> "127.0.0.1",
     server_port |-> 80,
     server_name |-> "localhost",
     content_length |-> None,
     content_type |-> None]

\* A translation that never sends the content length on.
translate_no_length(cfg, req) ==
    IF req.content_type.some /\ ~to_str_ok(req.content_type.v)
    THEN TranslateErr("ToStrError")
    ELSE [ok |-> TRUE, err |-> "",
          params |-> [base_params(cfg, req) EXCEPT
                         !.content_type = req.content_type]]

\* lines 72-90 of dispatch_to_fpm
translate(cfg, req) ==
    LET p0 == base_params(cfg, req) IN
    IF req.content_length.some /\ ~to_str_ok(req.content_length.v)
    THEN TranslateErr("ToStrError")
    ELSE IF req.content_length.some /\ ~parse_usize(req.content_length.v).some
    THEN TranslateErr("ParseIntError")
    ELSE
        LET p1 == IF req.content_length.some
                  THEN [p0 EXCEPT !.content_length = parse_usize(req.content_length.v)]
                  ELSE p0
        IN  IF req.content_type.some /\ ~to_str_ok(req.content_type.v)
            THEN TranslateErr("ToStrError")
            ELSE [ok |-> TRUE, err |-> "",
                  params |-> IF req.content_type.some
                             THEN [p1 EXCEPT !.content_type = Some(req.content_type.v)]
                             ELSE p1]

------------------------------------------------------------------------------
\* Inputs

\* The most header lines of a generated response.
MaxHeaders == 2

RECURSIVE Join(_)
Join(ls) ==
    IF Len(ls) = 0 THEN <<>>
    ELSE IF Len(ls) = 1 THEN ls[1]
    ELSE ls[1] \o CRLF \o Join(Tail(ls))

\* "Status", "status"
StatusNames == {<<83,116,97,116,117,115>>, <<115,116,97,116,117,115>>}
\* "204 N", "404", "abc", "", "99", "1000", "70000"
StatusValues ==
    {<<50,48,52,32,78>>, <<52,48,52>>, <<97,98,99>>, <<>>, <<57,57>>,
     <<49,48,48,48>>, <<55,48,48,48,48>>}
\* "X-A", "x-a"
PlainNames == {<<88,45,65>>, <<120,45,97>>}
\* "b", "c: d"
PlainValues == {<<98>>, <<99,58,32,100>>}
\* "X-A:b", "Status", "", "X A: b", "X-A: " CR
OddLines ==
    {<<88,45,65,58,98>>, <<83,116,97,116,117,115>>, <<>>,
     <<88,32,65,58,32,98>>, <<88,45,65,58,32,13>>}

Lines ==
    {n \o COLON_SP \o v : n \in StatusNames, v \in StatusValues}
    \cup {n \o COLON_SP \o v : n \in PlainNames, v \in PlainValues}
    \cup OddLines

HeaderBlocks == {Join(ls) : ls \in UNION {[1..k -> Lines] : k \in 0..MaxHeaders}}

\* the blank line, a single line end, nothing
Terminators == {CRLFCRLF, CRLF, <<>>}
\* "", "hi", "a" CR LF CR LF "b: "
Bodies == {<<>>, <<104,105>>, <<97,13,10,13,10,98,58,32>>}

RawResponses ==
    {h \o t \o b : h \in HeaderBlocks, t \in Terminators, b \in Bodies}

Option(S) == {None} \cup {Some(x) : x \in S}

Methods == {"GET", "POST", "DELETE"}
\* "0", "5", "007", "+5", "abc", "", "-1", "5x", "+", usize::MAX,
\* usize::MAX + 1, one opaque byte
ContentLengths ==
    {<<48>>, <<53>>, <<48,48,55>>, <<43,53>>, <<97,98,99>>, <<>>, <<45,49>>,
     <<53,120>>, <<43>>, USIZE_MAX_DIGITS,
     <<49,56,52,52,54,55,52,52,48,55,51,55,48,57,53,53,49,54,49,54>>,
     <<200>>}
\* "a/b", "a/b; c", one opaque byte
ContentTypes == {<<97,47,98>>, <<97,47,98,59,32,99>>, <<233>>}

Requests ==
    [method : Methods, content_length : Option(ContentLengths),
     content_type : Option(ContentTypes)]

\* FpmConfig values as FpmConfig::new builds them (lines 44-66)
Configs ==
    [script_path : {"/srv/app/pub/index.php", "/var/www/index.php"},
     addr : {"127.0.0.1:9000"},
     config_path : {"/srv/app/php-fpm.conf"}]

NoConfig == [script_path |-> "", addr |-> "", config_path |-> ""]
NoRequest == [method |-> "", content_length |-> None, content_type |-> None]

ParseIdle == data = <<>> /\ parsed = NotRun
TranslateIdle == t_cfg = NoConfig /\ t_req = NoRequest /\ t_out = NotRun

------------------------------------------------------------------------------
\* The gateway process: main (lines 206-223), the interrupt handler, the
\* request tasks (handler and dispatch_to_fpm, lines 68-117)

\* The most requests in flight, and the most workers php-fpm forks.
MaxReqs == 2
MaxWorkers == 1

Reqs == 1..MaxReqs

\* The pid of the gateway; the spawned processes take the next free pids.
GatewayPid == 1

\* The requests and backend answers of the gateway runs: a bare GET, a POST
\* with a length and a type, a POST whose content-length is "abc".
GatewayRequests ==
    {[method |-> "GET", content_length |-> None, content_type |-> None],
     [method |-> "POST", content_length |-> Some(<<53>>),
      content_type |-> Some(<<97,47,98>>)],
     [method |-> "POST", content_length |-> Some(<<97,98,99>>),
      content_type |-> None]}
\* "Status: 404" CRLF CRLF "hi", "X-A: b" CRLF CRLF, "X-A" CRLF
BackendStdout ==
    {<<83,116,97,116,117,115,58,32,52,48,52,13,10,13,10,104,105>>,
     <<88,45,65,58,32,98,13,10,13,10>>,
     <<88,45,65,13,10>>}
\* What client.execute comes back with: an error, or a response whose stdout
\* is missing or present.
ExecuteOutcomes ==
    {[ok |-> FALSE, stdout |-> None]}
    \cup {[ok |-> TRUE, stdout |-> o] : o \in Option(BackendStdout)}

\* The FpmConfig of the gateway runs.
GatewayConfigs == {c \in Configs : c.script_path = "/srv/app/pub/index.php"}

Response(s, h, b) == [status |-> s, headers |-> h, body |-> b]
NoResponse == Response(0, <<>>, <<>>)

IdleTask ==
    [pc |-> "idle", req |-> NoRequest, conn |-> 0, params |-> NotRun,
     out |-> None, result |-> NotRun, failed |-> "", resp |-> NoResponse]

GatewayInit ==
    /\ main_pc = "new_config"
    /\ exit_cause = ""
    /\ config = NoConfig
    /\ fpm_proc = 0
    /\ procs = (GatewayPid :> [pgid |-> GatewayPid, parent |-> 0])
    /\ handler_set = FALSE
    /\ kills = <<>>
    /\ signalled = {}
    /\ task = [r \in Reqs |-> IdleTask]
    /\ conns = <<>>

Alive == main_pc # "exited"

Exit(cause) == main_pc' = "exited" /\ exit_cause' = cause

\* FpmConfig::new (lines 44-66, called at 210-211): both paths canonicalized,
\* or main returns the error.
FpmConfigNew ==
    /\ main_pc = "new_config"
    /\ \/ \E c \in GatewayConfigs : config' = c /\ main_pc' = "run_php_fpm"
                             /\ UNCHANGED exit_cause
       \/ Exit("FpmConfig::new") /\ UNCHANGED config
    /\ UNCHANGED <<fpm_proc, procs, handler_set, kills, signalled, task, conns,
                   parseVars, translateVars>>

NextPid(ps) == (CHOOSE p \in DOMAIN ps : \A q \in DOMAIN ps : q <= p) + 1

\* Command::spawn as run_php_fpm calls it (lines 193-199): no process_group,
\* no setsid, so the child stays in the process group of its parent.
spawn_child(ps, parent) ==
    ps @@ (NextPid(ps) :> [pgid |-> ps[parent].pgid, parent |-> parent])

\* run_php_fpm (line 213)
RunPhpFpm ==
    /\ main_pc = "run_php_fpm"
    /\ \/ /\ procs' = spawn_child(procs, GatewayPid)
          /\ fpm_proc' = NextPid(procs)
          /\ main_pc' = "set_handler"
          /\ UNCHANGED exit_cause
       \/ Exit("run_php_fpm") /\ UNCHANGED <<procs, fpm_proc>>
    /\ UNCHANGED <<config, handler_set, kills, signalled, task, conns,
                   parseVars, translateVars>>

\* ctrlc::set_handler (lines 214-217)
SetHandler ==
    /\ main_pc = "set_handler"
    /\ \/ handler_set' = TRUE /\ main_pc' = "bind" /\ UNCHANGED exit_cause
       \/ Exit("set_handler") /\ UNCHANGED handler_set
    /\ UNCHANGED <<config, fpm_proc, procs, kills, signalled, task, conns,
                   parseVars, translateVars>>

\* TcpListener::bind (line 220)
Bind ==
    /\ main_pc = "bind"
    /\ \/ main_pc' = "serve" /\ UNCHANGED exit_cause
       \/ Exit("bind")
    /\ UNCHANGED <<config, fpm_proc, procs, handler_set, kills, signalled, task,
                   conns, parseVars, translateVars>>

\* axum::serve(...).await? returning (lines 221-222)
ServeReturns ==
    /\ main_pc = "serve"
    /\ Exit("serve")
    /\ UNCHANGED <<config, fpm_proc, procs, handler_set, kills, signalled, task,
                   conns, parseVars, translateVars>>

\* kill(-pid, SIGTERM) as kill_process_group calls it (lines 201-204): every
\* process of the group whose id is pid, ESRCH when there is no such group.
kill_targets(ps, pid) == {p \in DOMAIN ps : ps[p].pgid = pid}
kill_process_group(ps, pid) ==
    IF kill_targets(ps, pid) = {} THEN "ESRCH" ELSE "Ok"

\* The interrupt handler (lines 214-217): the result of the kill is dropped,
\* then exit(0).
CtrlcHandler ==
    /\ Alive
    /\ handler_set
    /\ kills' = Append(kills, kill_process_group(procs, fpm_proc))
    /\ signalled' = signalled \cup kill_targets(procs, fpm_proc)
    /\ Exit("ctrlc handler")
    /\ UNCHANGED <<config, fpm_proc, procs, handler_set, task, conns,
                   parseVars, translateVars>>

\* An interrupt before set_handler has run (lines 207-213): the default action
\* of SIGINT ends the process.
SigintDefault ==
    /\ Alive
    /\ ~handler_set
    /\ Exit("SIGINT")
    /\ UNCHANGED <<config, fpm_proc, procs, handler_set, kills, signalled, task,
                   conns, parseVars, translateVars>>

\* php-fpm forking a worker: a child of the backend, in the backend's group.
BackendFork ==
    /\ fpm_proc # 0
    /\ fpm_proc \notin signalled
    /\ Cardinality({p \in DOMAIN procs : procs[p].parent = fpm_proc}) < MaxWorkers
    /\ procs' = spawn_child(procs, fpm_proc)
    /\ UNCHANGED <<mainVars, task, conns, parseVars, translateVars>>

------------------------------------------------------------------------------
\* One request: handler (lines 112-117) around dispatch_to_fpm (lines 68-110)

Serving == main_pc = "serve"

\* A handler that answers a parse failure with 502 and the error's name.
handler_response_leaky(res) ==
    IF res.ok THEN Response(res.status, res.headers, res.body)
    ELSE IF res.err \in {"headers not found", "invalid header", "ParseIntError"} THEN Response(502, <<>>, <<63>>)
    ELSE Response(StatusCode_INTERNAL_SERVER_ERROR, <<>>, <<>>)

\* handler's match (lines 113-116) and the into_response of either arm
handler_response(res) ==
    IF res.ok THEN Response(res.status, res.headers, res.body)
    ELSE Response(StatusCode_INTERNAL_SERVER_ERROR, <<>>, <<>>)

\* dispatch_to_fpm returning to handler (line 113), which answers at once: the
\* result, the stage that failed if one did, and the response.
Finish(t, stage, res) ==
    [t EXCEPT !.pc = "done", !.result = res, !.failed = stage,
              !.resp = handler_response(res)]

DispatchErr(t, stage, e) == Finish(t, stage, ParseErr(e))

\* The router hands a request to handler (line 219, lines 112-113).
Accept(r) ==
    /\ Serving
    /\ task[r].pc = "idle"
    /\ \E q \in GatewayRequests :
          task' = [task EXCEPT ![r] = [@ EXCEPT !.pc = "connect", !.req = q]]
    /\ UNCHANGED <<mainVars, procs, conns, parseVars, translateVars>>

NewConn(r) == [owner |-> r, requests |-> 0, reply |-> None]

\* A connection taken from those already open, when there is one.
pooled_connection(cs, r) == IF Len(cs) > 0 THEN cs ELSE Append(cs, NewConn(r))

\* TcpStream::connect and Client::new_keep_alive (lines 69-70): a connection
\* of this request's own, the last of the list.
open_connection(cs, r) == Append(cs, NewConn(r))

Connect(r) ==
    /\ Serving
    /\ task[r].pc = "connect"
    /\ \/ /\ conns' = open_connection(conns, r)
          /\ task' = [task EXCEPT ![r] =
                        [@ EXCEPT !.pc = "translate", !.conn = Len(conns')]]
       \/ /\ task' = [task EXCEPT ![r] = DispatchErr(@, "transport", "io::Error")]
          /\ UNCHANGED conns
    /\ UNCHANGED <<mainVars, procs, parseVars, translateVars>>

\* lines 72-90
TranslateRequest(r) ==
    /\ Serving
    /\ task[r].pc = "translate"
    /\ LET tr == translate(config, task[r].req) IN
       task' = [task EXCEPT ![r] =
                  IF tr.ok THEN [@ EXCEPT !.pc = "execute", !.params = tr]
                  ELSE [DispatchErr(@, "translation", tr.err) EXCEPT !.params = tr]]
    /\ UNCHANGED <<mainVars, procs, conns, parseVars, translateVars>>

\* client.execute(...).await? and res.stdout.ok_or("no stdout")? (lines 93-107)
Execute(r) ==
    /\ Serving
    /\ task[r].pc = "execute"
    /\ \E o \in ExecuteOutcomes :
          LET c == task[r].conn IN
          /\ conns' = [conns EXCEPT ![c] =
                          [@ EXCEPT !.requests = @ + 1,
                                    !.reply = IF o.ok THEN o.stdout ELSE None]]
          /\ task' = [task EXCEPT ![r] =
                        IF ~o.ok THEN DispatchErr(@, "transport", "ClientError")
                        ELSE IF ~conns'[c].reply.some
                        THEN DispatchErr(@, "transport", "no stdout")
                        ELSE [@ EXCEPT !.pc = "parse", !.out = conns'[c].reply]]
    /\ UNCHANGED <<mainVars, procs, parseVars, translateVars>>

\* parse_fpm_response(&out)? (line 109), and handler's answer
ParseReply(r) ==
    /\ Serving
    /\ task[r].pc = "parse"
    /\ LET res == parse_fpm_response(task[r].out.v) IN
       task' = [task EXCEPT ![r] = Finish(@, IF res.ok THEN "" ELSE "parsing", res)]
    /\ UNCHANGED <<mainVars, procs, conns, parseVars, translateVars>>

Init ==
    /\ GatewayInit
    /\ ParseIdle
    /\ TranslateIdle

Next ==
    \/ FpmConfigNew
    \/ RunPhpFpm
    \/ SetHandler
    \/ Bind
    \/ ServeReturns
    \/ CtrlcHandler
    \/ SigintDefault
    \/ BackendFork
    \/ \E r \in Reqs : Accept(r)
    \/ \E r \in Reqs : Connect(r)
    \/ \E r \in Reqs : TranslateRequest(r)
    \/ \E r \in Reqs : Execute(r)
    \/ \E r \in Reqs : ParseReply(r)

Spec == Init /\ [][Next]_vars

------------------------------------------------------------------------------
\* SpecParse: parse_fpm_response applied to every generated raw response

InitParse ==
    /\ data \in RawResponses
    /\ parsed = NotRun
    /\ TranslateIdle
    /\ GatewayInit

ParseResponse ==
    /\ parsed = NotRun
    /\ parsed' = parse_fpm_response(data)
    /\ UNCHANGED <<data, translateVars, gatewayVars>>

NextParse == ParseResponse

SpecParse == InitParse /\ [][NextParse]_vars

------------------------------------------------------------------------------
\* SpecTranslate: the translation applied to every generated request

InitTranslate ==
    /\ t_cfg \in Configs
    /\ t_req \in Requests
    /\ t_out = NotRun
    /\ ParseIdle
    /\ GatewayInit

Translate ==
    /\ t_out = NotRun
    /\ t_out' = translate(t_cfg, t_req)
    /\ UNCHANGED <<t_cfg, t_req, parseVars, gatewayVars>>

NextTranslate == Translate

SpecTranslate == InitTranslate /\ [][NextTranslate]_vars

------------------------------------------------------------------------------
\* What the claims about the parser and the translation speak of, stated from
\* the byte strings themselves

Occurs(s, sep, i) ==
    /\ i >= 0
    /\ i + Len(sep) <= Len(s)
    /\ \A k \in 1..Len(sep) : s[i + k] = sep[k]

HasSep(s, sep) == \E i \in 0..Len(s) : Occurs(s, sep, i)

FirstSep(s, sep) ==
    CHOOSE i \in 0..Len(s) :
        Occurs(s, sep, i) /\ \A j \in 0..(i - 1) : ~Occurs(s, sep, j)

SetMax(S) == CHOOSE x \in S : \A y \in S : y <= x
SetMin(S) == CHOOSE x \in S : \A y \in S : x <= y

\* The bytes before the first blank line of a response that has one.
HeaderBlock(d) == SubSeq(d, 1, FirstSep(d, CRLFCRLF))

\* The offsets at which the lines of a header block start, and the line that
\* starts at one of them.
LineStarts(blk) ==
    {s \in {0} \cup {i + 2 : i \in {j \in 0..Len(blk) : Occurs(blk, CRLF, j)}} :
        s < Len(blk)}
LineEnd(blk, s) ==
    SetMin({i \in s..Len(blk) : Occurs(blk, CRLF, i)} \cup {Len(blk)})
LineAt(blk, s) == SubSeq(blk, s + 1, LineEnd(blk, s))

Lower(b) == [i \in 1..Len(b) |-> IF b[i] \in 65..90 THEN b[i] + 32 ELSE b[i]]
NameOf(line) == Lower(SubSeq(line, 1, FirstSep(line, COLON_SP)))
ValueOf(line) == SubSeq(line, FirstSep(line, COLON_SP) + 3, Len(line))

\* A line that splits into a valid name and a valid value.
WellFormedLine(line) ==
    /\ HasSep(line, COLON_SP)
    /\ HeaderName_valid(SubSeq(line, 1, FirstSep(line, COLON_SP)))
    /\ HeaderValue_valid(ValueOf(line))

IsStatusLine(line) == HasSep(line, COLON_SP) /\ NameOf(line) = STATUS

\* The leading run of ASCII digits of a value, and the integer it writes.
DigitRunLen(v) ==
    SetMax({k \in 0..Len(v) : \A i \in 1..k : v[i] \in 48..57})
DigitRun(v) == SubSeq(v, 1, DigitRunLen(v))
RECURSIVE DecValue(_)
DecValue(dg) ==
    IF Len(dg) = 0 THEN 0
    ELSE 10 * DecValue(SubSeq(dg, 1, Len(dg) - 1)) + (dg[Len(dg)] - 48)

\* The status value has no leading digits, or they do not fit 16 bits.
NoU16(v) == DigitRunLen(v) = 0 \/ DecValue(DigitRun(v)) > 65535
\* ... or they are no status code of the http crate (100..=999).
NoStatusCode(v) ==
    NoU16(v) \/ DecValue(DigitRun(v)) < 100 \/ DecValue(DigitRun(v)) > 999

StatusStarts(blk) == {s \in LineStarts(blk) : IsStatusLine(LineAt(blk, s))}

\* The map from each non-status name to the value of its last line.
ExpectedHeaders(blk) ==
    LET S == LineStarts(blk)
        names == {NameOf(LineAt(blk, s)) : s \in S} \ {STATUS}
    IN  [n \in names |->
            ValueOf(LineAt(blk, SetMax({s \in S : NameOf(LineAt(blk, s)) = n})))]

\* A line the parser accepts: well formed, and a valid status if it is one.
AcceptedLine(line) ==
    /\ WellFormedLine(line)
    /\ IsStatusLine(line) => ~NoStatusCode(ValueOf(line))

Parsed == parsed # NotRun

\* The error kinds the specification names, for the errors of the code.
Kind(err) ==
    CASE err = "headers not found" -> "MissingBodyBoundary"
      [] err \in {"invalid header", "InvalidHeaderName", "InvalidHeaderValue"}
            -> "MalformedHeaderLine"
      [] err \in {"ParseIntError", "InvalidStatusCode"} -> "InvalidStatus"
      [] OTHER -> "none"

------------------------------------------------------------------------------
\* C3, as stated: with a boundary and well-formed header lines, the status is
\* 200 without a status header, else the 16-bit integer written by the leading
\* digits of the status value, and the parse fails with InvalidStatus
\* (ParseIntError) exactly when those digits are missing or exceed 16 bits.
C3_AsStated ==
    (Parsed /\ HasSep(data, CRLFCRLF)
        /\ \A s \in LineStarts(HeaderBlock(data)) :
              WellFormedLine(LineAt(HeaderBlock(data), s)))
    => LET blk == HeaderBlock(data)
           St == StatusStarts(blk)
           bad == \E s \in St : NoU16(ValueOf(LineAt(blk, s)))
       IN  /\ (St = {} => parsed.ok /\ parsed.status = 200)
           /\ (~parsed.ok <=> bad)
           /\ (~parsed.ok => parsed.err = "ParseIntError")
           /\ (parsed.ok /\ St # {} =>
                 parsed.status = DecValue(DigitRun(ValueOf(LineAt(blk, SetMax(St))))))

\* C3, amended: the integer must also be a status code of the http crate,
\* 100..999; the parse fails (ParseIntError or InvalidStatusCode, both
\* InvalidStatus) exactly when some status header's leading digits are missing,
\* exceed 16 bits or are outside 100..999; otherwise the status is that of the
\* last status header, 200 when there is none.
C3_StatusRule ==
    (Parsed /\ HasSep(data, CRLFCRLF)
        /\ \A s \in LineStarts(HeaderBlock(data)) :
              WellFormedLine(LineAt(HeaderBlock(data), s)))
    => LET blk == HeaderBlock(data)
           St == StatusStarts(blk)
           bad == \E s \in St : NoStatusCode(ValueOf(LineAt(blk, s)))
       IN  /\ (St = {} => parsed.ok /\ parsed.status = 200)
           /\ (~parsed.ok <=> bad)
           /\ (~parsed.ok =>
                 LET f == SetMin({s \in St : NoStatusCode(ValueOf(LineAt(blk, s)))})
                 IN  parsed.err = IF NoU16(ValueOf(LineAt(blk, f)))
                                  THEN "ParseIntError" ELSE "InvalidStatusCode")
           /\ (parsed.ok /\ St # {} =>
                 parsed.status = DecValue(DigitRun(ValueOf(LineAt(blk, SetMax(St))))))

\* "Status: 204 N" among well-formed lines, parsed to 204.
C3_Witness ==
    /\ Parsed /\ parsed.ok /\ parsed.status = 204
    /\ \E s \in StatusStarts(HeaderBlock(data)) :
          Len(ValueOf(LineAt(HeaderBlock(data), s))) > 3

\* C4: the boundary is the first CR LF CR LF: the headers and the status come
\* from the bytes before it alone, the body is every byte after it, unchanged,
\* and a buffer without CR LF CR LF fails with "headers not found"
\* (MissingBodyBoundary), which no other buffer does.
C4_Boundary ==
    Parsed =>
        /\ (~HasSep(data, CRLFCRLF) <=> parsed.err = "headers not found")
        /\ (~HasSep(data, CRLFCRLF) => ~parsed.ok)
        /\ HasSep(data, CRLFCRLF) =>
              LET ix == FirstSep(data, CRLFCRLF)
                  alone == parse_fpm_response(SubSeq(data, 1, ix) \o CRLFCRLF)
              IN  /\ parsed.ok => parsed.body = SubSeq(data, ix + 5, Len(data))
                  /\ parsed.ok => SubSeq(data, 1, ix) \o CRLFCRLF \o parsed.body = data
                  /\ parsed.ok = alone.ok /\ parsed.err = alone.err
                  /\ parsed.status = alone.status /\ parsed.headers = alone.headers

\* A parsed response whose body holds a second CR LF CR LF.
C4_Witness ==
    /\ Parsed /\ parsed.ok
    /\ HasSep(parsed.body, CRLFCRLF)
    /\ DOMAIN parsed.headers # {}

\* C5, as stated: a line without ": " makes the parse fail with
\* MalformedHeaderLine; a successful parse yields the map from each non-status
\* name to the value of its last line, without any entry named status.
C5_AsStated ==
    (Parsed /\ HasSep(data, CRLFCRLF))
    => LET blk == HeaderBlock(data) IN
       /\ (\E s \in LineStarts(blk) : ~HasSep(LineAt(blk, s), COLON_SP))
             => (~parsed.ok /\ Kind(parsed.err) = "MalformedHeaderLine")
       /\ parsed.ok =>
             /\ parsed.headers = ExpectedHeaders(blk)
             /\ \A n \in DOMAIN parsed.headers : Lower(n) # STATUS

\* C5, amended: a line without ": " makes the parse fail, with "invalid header"
\* when every line before it is accepted (else the first rejected line sets the
\* error); a successful parse yields the map from each non-status name to the
\* value of its last line, without any entry named status.
C5_HeaderLines ==
    (Parsed /\ HasSep(data, CRLFCRLF))
    => LET blk == HeaderBlock(data)
           nosep == {s \in LineStarts(blk) : ~HasSep(LineAt(blk, s), COLON_SP)}
       IN
       /\ nosep # {} => ~parsed.ok
       /\ (nosep # {} /\ \A s \in LineStarts(blk) :
                            s < SetMin(nosep) => AcceptedLine(LineAt(blk, s)))
             => parsed.err = "invalid header"
       /\ parsed.err = "invalid header" => nosep # {}
       /\ parsed.ok =>
             /\ parsed.headers = ExpectedHeaders(blk)
             /\ \A n \in DOMAIN parsed.headers : Lower(n) # STATUS

\* Two lines of one name in different letter case and a status line: one entry,
\* holding the later value, split on its first ": ".
C5_Witness ==
    /\ Parsed /\ parsed.ok
    /\ Cardinality(LineStarts(HeaderBlock(data))) = 2
    /\ DOMAIN parsed.headers = {<<120,45,97>>}
    /\ parsed.headers[<<120,45,97>>] = <<99,58,32,100>>
    /\ \E s \in LineStarts(HeaderBlock(data)) :
          ValueOf(LineAt(HeaderBlock(data), s)) = <<98>>

------------------------------------------------------------------------------
\* The translation

Translated == t_out # NotRun

AllDigits(b) == \A i \in 1..Len(b) : b[i] \in 48..57
Unsigned(b) == IF Len(b) > 0 /\ b[1] = 43 THEN SubSeq(b, 2, Len(b)) ELSE b
\* A decimal integer, with or without a "+" before it.
Numeric(b) == Len(Unsigned(b)) > 0 /\ AllDigits(Unsigned(b))
\* p writes without leading zeros the integer that h writes.
SameInteger(h, p) ==
    /\ Len(p) > 0 /\ AllDigits(p)
    /\ Len(p) = 1 \/ p[1] # 48
    /\ \E k \in 0..(Len(Unsigned(h)) - 1) :
          /\ \A i \in 1..k : Unsigned(h)[i] = 48
          /\ SubSeq(Unsigned(h), k + 1, Len(Unsigned(h))) = p

\* C6: the parameter set carries the request's method and the configuration's
\* script path; it has a content-length exactly when the request has the header,
\* holding the integer the header writes, and a content-type exactly when the
\* request has that header, holding the same bytes; a content-length that is no
\* decimal integer fails the translation (MalformedHeader).
C6_Params ==
    Translated =>
        /\ t_out.ok =>
              /\ t_out.params.request_method = t_req.method
              /\ t_out.params.script_filename = t_cfg.script_path
              /\ t_out.params.content_length.some <=> t_req.content_length.some
              /\ t_req.content_length.some =>
                    SameInteger(t_req.content_length.v, t_out.params.content_length.v)
              /\ t_out.params.content_type = t_req.content_type
        /\ (t_req.content_length.some /\ ~Numeric(t_req.content_length.v)) =>
              (~t_out.ok /\ t_out.err \in {"ParseIntError", "ToStrError"})

\* A request with content-length "007" and a content-type, translated.
C6_Witness ==
    /\ Translated /\ t_out.ok
    /\ t_req.content_length = Some(<<48,48,55>>)
    /\ t_out.params.content_length = Some(<<55>>)
    /\ t_req.content_type.some

------------------------------------------------------------------------------
\* The gateway

Done(r) == task[r].pc = "done"
Generic500 == Response(500, <<>>, <<>>)

\* C1: a request any stage of which failed (translation, transport, parsing) is
\* answered with status 500, no header and no body, whatever the failure.
C1_Generic500 ==
    \A r \in Reqs : (Done(r) /\ task[r].failed # "") => task[r].resp = Generic500

\* Two answered requests that failed at different stages.
C1_Witness ==
    \E r1, r2 \in Reqs :
        /\ Done(r1) /\ Done(r2)
        /\ task[r1].failed = "parsing"
        /\ task[r2].failed = "translation"

\* C2, as stated: a request holds a backend connection only once its
\* translation has succeeded, one whose translation failed never opened one,
\* and parsing starts only on a received response.
C2_AsStated ==
    \A r \in Reqs :
        /\ task[r].conn # 0 => task[r].params.ok
        /\ task[r].failed = "translation" => task[r].conn = 0
        /\ task[r].pc = "parse" =>
              (task[r].conn # 0 /\ conns[task[r].conn].reply.some)

\* C7, as stated: a gateway ended by an interrupt that came after the backend
\* was started has called kill on the backend's process group exactly once.
C7_AsStated ==
    (main_pc = "exited" /\ exit_cause \in {"ctrlc handler", "SIGINT"}
        /\ fpm_proc # 0)
    => Len(kills) = 1

\* C8, as stated: the gateway serves only with a spawned backend, and a gateway
\* that ended after the spawn has signalled the backend's process group.
C8_AsStated ==
    /\ main_pc = "serve" => fpm_proc # 0
    /\ (main_pc = "exited" /\ fpm_proc # 0) => Len(kills) >= 1

\* C9, as stated: the backend leads a process group of its own, which holds its
\* children and not the gateway, and the shutdown signal reaches all of them.
C9_AsStated ==
    fpm_proc # 0 =>
        /\ procs[fpm_proc].pgid = fpm_proc
        /\ \A p \in DOMAIN procs :
              procs[p].parent = fpm_proc => procs[p].pgid = fpm_proc
        /\ procs[GatewayPid].pgid # fpm_proc
        /\ Len(kills) > 0 =>
              /\ fpm_proc \in signalled
              /\ \A p \in DOMAIN procs : procs[p].parent = fpm_proc => p \in signalled

\* The requests that have opened a connection share none.
OwnConnections ==
    /\ \A r \in Reqs :
          task[r].conn # 0 =>
              /\ task[r].conn \in 1..Len(conns)
              /\ conns[task[r].conn].owner = r
    /\ \A r1, r2 \in Reqs :
          (r1 # r2 /\ task[r1].conn # 0) => task[r1].conn # task[r2].conn
    /\ \A c \in 1..Len(conns) :
          /\ conns[c].requests <= 1
          /\ task[conns[c].owner].conn = c

\* What a request answers is decided by its own request and by what its own
\* connection delivered.
OwnAnswer ==
    /\ \A r \in Reqs :
          task[r].out.some => task[r].out = conns[task[r].conn].reply
    /\ \A r1, r2 \in Reqs :
          (/\ Done(r1) /\ Done(r2)
           /\ task[r1].req = task[r2].req
           /\ (task[r1].conn = 0) = (task[r2].conn = 0)
           /\ task[r1].conn # 0 =>
                 /\ conns[task[r1].conn].requests = conns[task[r2].conn].requests
                 /\ conns[task[r1].conn].requests = 1
                 /\ conns[task[r1].conn].reply.some
                 /\ conns[task[r1].conn].reply = conns[task[r2].conn].reply)
          => task[r1].resp = task[r2].resp

\* The configuration is built once and never changes afterwards.
ConfigFrozen == [][config # NoConfig => config' = config]_vars

\* C10, as stated: every answered request opened a connection of its own and
\* issued exactly one FastCGI request on it; no connection serves two requests;
\* the answer comes from the request and its own connection; the configuration
\* never changes once built.
C10_AsStated ==
    /\ OwnConnections
    /\ OwnAnswer
    /\ \A r \in Reqs :
          Done(r) => (task[r].conn # 0 /\ conns[task[r].conn].requests = 1)

\* The FastCGI requests a request has issued: one once its exchange has run,
\* none before, and none at all when its connect or its translation failed.
OneExchange ==
    \A r \in Reqs :
        /\ (task[r].conn # 0 /\ task[r].pc \in {"parse", "done"}
              /\ task[r].failed # "translation")
              => conns[task[r].conn].requests = 1
        /\ (task[r].conn # 0 /\ (task[r].failed = "translation"
                                  \/ task[r].pc \in {"translate", "execute"}))
              => conns[task[r].conn].requests = 0
        /\ task[r].pc \in {"translate", "execute", "parse"} => task[r].conn # 0
        /\ task[r].params.ok => task[r].params.params.script_filename = config.script_path

\* C10, amended: a request opens at most one connection, of its own, and issues
\* at most one FastCGI request on it: exactly one once its connect and its
\* translation have both succeeded and the exchange has run, none when the
\* connect or the translation failed; no connection serves two requests; the
\* answer comes from the request and its own connection; the configuration
\* never changes once built.
C10_Isolation ==
    /\ [](OwnConnections /\ OwnAnswer /\ OneExchange)
    /\ ConfigFrozen

\* Two answered requests, each having run one exchange on its own connection.
C10_Witness ==
    \E r1, r2 \in Reqs :
        /\ r1 # r2 /\ Done(r1) /\ Done(r2)
        /\ task[r1].conn # 0 /\ task[r2].conn # 0
        /\ conns[task[r1].conn].requests = 1
        /\ conns[task[r2].conn].requests = 1
        /\ task[r1].resp # task[r2].resp

====
